---- MODULE Spec2Model ----
(***************************************************************************)
(* Call lifecycle controller of the interview agent                        *)
(* (src/components/Agent.tsx).                                             *)
(*                                                                         *)
(* The component's React state, the watchdog interval, the calls it makes  *)
(* on the voice transport (vapi.start / vapi.stop), on the router and on   *)
(* createFeedback are the state.  Every handler is one action; the action  *)
(* contains the re-render the handler's setState calls cause, i.e. the     *)
(* cleanup and re-run of each effect whose dependencies changed.           *)
(* Time is in milliseconds, as Date.now() is.                              *)
(*                                                                         *)
(* The auth server actions (src/unnamed/part_000) are a second part: the   *)
(* users collection, the identity provider's records and the request's     *)
(* session cookie are their state.  signUp is two steps, one per awaited   *)
(* database call, so that concurrent calls interleave; the other actions   *)
(* are one step each.  Spec runs the component, AuthSpec the server        *)
(* actions.                                                                *)
(***************************************************************************)
EXTENDS Integers, Sequences, FiniteSets

\* ---------------------------------------------------------------- bounds
\* The clock is followed up to MaxTime.  The logs and counters may grow to the
\* Max* bounds below while the clock stands at its initial value, and to
\* LongRunLog once it has advanced.
MaxTime == 40000
LongRunLog == 1
MaxMessages == 2
MaxFeedbackCalls == 2
MaxPushes == 2
MaxStops == 2
MaxStarts == 2

\* ------------------------------------------------------------- constants
INACTIVITY_TIMEOUT == 30000
POLL_INTERVAL == 5000

\* The clock is observed once per poll interval and whenever the interval is
\* due.
TickStep == POLL_INTERVAL

INACTIVE == "INACTIVE"
CONNECTING == "CONNECTING"
ACTIVE == "ACTIVE"
FINISHED == "FINISHED"
CallStatus == {INACTIVE, CONNECTING, ACTIVE, FINISHED}

NoTimer == -1

Types == {"generate", "interview"}
InterviewIds == {"iv1"}
FeedbackIds == {"fb1", "fb2"}

\* Strings that the code searches or assembles are sequences of tokens.
MeetingHasEnded == <<"Meeting", "has", "ended">>

includes(s, sub) ==
  \E i \in 0..(Len(s) - Len(sub)) : SubSeq(s, i + 1, i + Len(sub)) = sub

\* The values the transport passes to the "error" handler.  The handler's
\* parameter type is Error, so each is a non-null object (isObject).  message
\* is the object's message property (<<>> when absent or empty, both falsy),
\* str is error.toString(), json is JSON.stringify(error).
ErrorEvents ==
  { [isObject |-> TRUE,
     message |-> MeetingHasEnded,
     str |-> <<"Error:">> \o MeetingHasEnded,
     json |-> <<"{}">>],
    [isObject |-> TRUE,
     message |-> <<>>,
     str |-> <<"[object Object]">>,
     json |-> <<"{", "errorMsg", ":">> \o MeetingHasEnded \o <<"}">>],
    [isObject |-> TRUE,
     message |-> <<>>,
     str |-> <<"Daily:">> \o MeetingHasEnded \o <<"(ejected)">>,
     json |-> <<"{}">>],
    [isObject |-> TRUE,
     message |-> <<"Meeting", "ended">>,
     str |-> <<"Error:", "Meeting", "ended">>,
     json |-> <<"{}">>],
    [isObject |-> TRUE,
     message |-> <<"network">>,
     str |-> <<"Error:", "network">>,
     json |-> <<"{", "has", "ended", "Meeting", "}">>] }

\* Variant of isMeetingEnded that accepts every object.
isMeetingEnded_anyObject(error) == error.isObject

\* Variant of isMeetingEnded that tests the message property only.
isMeetingEnded_messageOnly(error) ==
  /\ error.isObject
  /\ error.message # <<>> /\ includes(error.message, MeetingHasEnded)

\* onError's condition.
isMeetingEnded(error) ==
  /\ error.isObject
  /\ \/ (error.message # <<>> /\ includes(error.message, MeetingHasEnded))
     \/ includes(error.str, MeetingHasEnded)
     \/ includes(error.json, MeetingHasEnded)

\* The values the transport passes to the "message" handler.
Roles == {"user", "assistant"}
Messages ==
  [type : {"transcript"}, transcriptType : {"partial", "final"},
   role : Roles, transcript : {"hello"}]
  \cup [type : {"function-call"}, transcriptType : {"none"},
        role : {"assistant"}, transcript : {"hello"}]

\* The outcomes of createFeedback: { success, feedbackId? }.
NoId == "undefined"
FeedbackResults ==
  [success : BOOLEAN, feedbackId : FeedbackIds \cup {NoId}]

truthy(id) == id # NoId

\* Locations handed to router.push, as lists of path segments.
DefaultPath == <<>>
FeedbackPath(iid) == <<"interview", iid, "feedback">>

\* The transport events the component listens to.
Events ==
  {"call-start", "call-end", "message", "speech-start", "speech-end", "error"}

\* The handlers effect: vapi.on for each of the six events.
subscribe(l) == [event \in Events |-> l[event] + 1]

\* Variant of unsubscribe that leaves the error handler registered.
unsubscribe_keepsError(l) ==
  [event \in Events |->
     IF event # "error" /\ l[event] > 0 THEN l[event] - 1 ELSE l[event]]

\* The handlers effect's cleanup: vapi.off for each of the six events, with
\* the function that was registered.
unsubscribe(l) ==
  [event \in Events |-> IF l[event] > 0 THEN l[event] - 1 ELSE 0]

VARIABLES
  now,                    \* Date.now()
  mounted,                \* the component is mounted
  listeners,              \* number of handlers registered with vapi, per event
  type, interviewId,      \* props
  callStatus, messages, isSpeaking, lastMessage, lastActivityTimestamp,
  inactivityTimer,        \* due time of the armed interval, or NoTimer
  startCalls, stopCalls,  \* number of vapi.start / vapi.stop invocations
  pushed,                 \* router.push calls, in order
  feedbackCalls,          \* transcripts handed to createFeedback, in order
  pendingFeedback,        \* indices of createFeedback calls not yet settled
  lastOp,                 \* history: the handler that ran last, its input
  finals                  \* history: final transcripts delivered, in order

agentVars == <<now, mounted, listeners, type, interviewId, callStatus, messages,
               isSpeaking, lastMessage, lastActivityTimestamp,
               inactivityTimer, startCalls, stopCalls, pushed, feedbackCalls,
               pendingFeedback, lastOp, finals>>

props == <<type, interviewId>>

\* ------------------------------------------- the auth server actions' state

\* Bound of the exploration: the number of signUp calls in flight or done.
MaxSignUps == 2

Uids == {"u1", "u2"}
Names == {"ann", "bob"}
EmailOf == [uid \in Uids |-> <<uid, "@mail">>]
Emails == {EmailOf[uid] : uid \in Uids} \cup {<<"nobody", "@mail">>}

\* A document of the "users" collection, or its absence.
NoDoc == [exists |-> FALSE]
Docs == [exists : {TRUE}, name : Names, email : Emails]

\* The identity provider's record of a uid: none, or one whose emailVerified
\* is false or true.
AuthRecords == {"none", "unverified", "verified"}

\* ID tokens a client can send and session cookies a browser can present:
\* the uid they were issued for, and whether the provider accepts them.
IdTokens ==
  [uid : Uids, valid : {TRUE}] \cup [uid : {"u1"}, valid : {FALSE}]
NoCookie == [present |-> FALSE]
SessionCookies == [present : {TRUE}, uid : Uids, valid : BOOLEAN]
\* A cookie that was forged, has expired or was revoked.
StaleCookie == [present |-> TRUE, uid |-> "u1", valid |-> FALSE]

\* The awaited call that throws during one run of a server action, if any.
NoFault == "none"
SignUpGetFaults == {NoFault, "get"}
SignUpSetFaults == {NoFault, "set"}
SignInFaults == {NoFault, "getUserByEmail", "createSessionCookie"}
CurrentUserFaults == {NoFault, "verifySessionCookie", "get", "getUser"}

NoUser == [isNull |-> TRUE]

VARIABLES
  users,                  \* db.collection("users"): uid -> document
  authUsers,              \* the identity provider's records: uid -> record
  cookie,                 \* the "session" cookie of the request's cookie store
  signUps,                \* the signUp calls: position, params, outcome
  writes,                 \* history: number of doc(uid).set by signUp, per uid
  lastAuth                \* history: the server action that ran last

authVars == <<users, authUsers, cookie, signUps, writes, lastAuth>>

vars == <<agentVars, authVars>>

SignUpCalls == 1..MaxSignUps
Idle == [pc |-> "idle"]

AuthInit ==
  /\ users = [uid \in Uids |-> NoDoc]
  /\ authUsers = [uid \in Uids |-> "none"]
  /\ cookie = NoCookie
  /\ signUps = [c \in SignUpCalls |-> Idle]
  /\ writes = [uid \in Uids |-> 0]
  /\ lastAuth = [op |-> "none"]

Min(a, b) == IF a <= b THEN a ELSE b

\* ------------------------------------------------------------ the effects

\* Variant of inactivityEffect whose cleanup does not clear the interval.
inactivityEffect_noCleanup(oldStatus, oldTs, oldTimer, newStatus, newTs, t) ==
  IF newStatus = oldStatus /\ newTs = oldTs THEN oldTimer
  ELSE IF newStatus # ACTIVE THEN oldTimer
  ELSE t + POLL_INTERVAL

\* Inactivity monitor effect, dependencies [callStatus, lastActivityTimestamp]:
\* when one changed, the cleanup clears the interval and the effect arms a new
\* one only if the status is ACTIVE.  The result is the timer after the render.
inactivityEffect(oldStatus, oldTs, oldTimer, newStatus, newTs, t) ==
  IF newStatus = oldStatus /\ newTs = oldTs THEN oldTimer
  ELSE IF newStatus # ACTIVE THEN NoTimer
  ELSE t + POLL_INTERVAL

\* Variant of timedOut that is satisfied at the threshold itself.
timedOut_atThreshold(t, ts) == t - ts >= INACTIVITY_TIMEOUT

\* Variant of timedOut that allows one more poll interval.
timedOut_late(t, ts) == t - ts > INACTIVITY_TIMEOUT + POLL_INTERVAL

\* The interval callback's test.
timedOut(t, ts) == t - ts > INACTIVITY_TIMEOUT

\* Terminal dispatch effect, dependencies [messages, callStatus] (the other
\* dependencies are props that never change): it runs when one changed.
dispatchRuns(oldStatus, oldMessages, newStatus, newMessages) ==
  newStatus # oldStatus \/ newMessages # oldMessages

dispatches(oldStatus, oldMessages, newStatus, newMessages) ==
  /\ dispatchRuns(oldStatus, oldMessages, newStatus, newMessages)
  /\ newStatus = FINISHED

\* Variant of submitsFeedback that ignores the mode.
submitsFeedback_always(t) == TRUE

\* if (type === "generate") router.push("/") else handleGenerateFeedback
submitsFeedback(t) == t # "generate"

\* setLastMessage(messages[messages.length - 1].content)
lastMessageEffect(oldStatus, oldMessages, oldLast, newStatus, newMessages) ==
  IF /\ dispatchRuns(oldStatus, oldMessages, newStatus, newMessages)
     /\ Len(newMessages) > 0
  THEN newMessages[Len(newMessages)].content
  ELSE oldLast

\* Variants of feedbackDestination: one that always falls back, one that
\* does not test success.
feedbackDestination_default(result, iid) == DefaultPath

feedbackDestination_idOnly(result, iid) ==
  IF truthy(result.feedbackId) THEN FeedbackPath(iid) ELSE DefaultPath

\* The location handleGenerateFeedback pushes once createFeedback resolved.
feedbackDestination(result, iid) ==
  IF result.success /\ truthy(result.feedbackId)
  THEN FeedbackPath(iid)
  ELSE DefaultPath

\* onMessage's condition and the entry it saves.
isFinalTranscript(message) ==
  message.type = "transcript" /\ message.transcriptType = "final"

savedMessage(message) == [role |-> message.role, content |-> message.transcript]

\* Variant of onMessageMessages that does not test transcriptType.
onMessageMessages_anyTranscript(prev, message) ==
  IF message.type = "transcript" THEN Append(prev, savedMessage(message))
  ELSE prev

\* onMessage: setMessages((prev) => [...prev, newMessage])
onMessageMessages(prev, message) ==
  IF isFinalTranscript(message) THEN Append(prev, savedMessage(message))
  ELSE prev

onMessageTimestamp(ts, message, t) ==
  IF isFinalTranscript(message) THEN t ELSE ts

\* Variant of transcript that submits only the latest entry.
transcript_latestOnly(msgs) ==
  IF msgs = <<>> THEN msgs ELSE <<msgs[Len(msgs)]>>

\* handleGenerateFeedback(messages): the transcript argument of createFeedback.
transcript(msgs) == msgs

\* The commit of a render with the given new values of the three pieces of
\* state the effects depend on, followed by the effects.
Render(newStatus, newMessages, newTs) ==
  /\ callStatus' = newStatus
  /\ messages' = newMessages
  /\ lastActivityTimestamp' = newTs
  /\ inactivityTimer' =
       inactivityEffect(callStatus, lastActivityTimestamp, inactivityTimer,
                        newStatus, newTs, now)
  /\ lastMessage' =
       lastMessageEffect(callStatus, messages, lastMessage,
                         newStatus, newMessages)
  /\ IF dispatches(callStatus, messages, newStatus, newMessages)
     THEN IF submitsFeedback(type)
          THEN /\ feedbackCalls' =
                    Append(feedbackCalls, transcript(newMessages))
               /\ pendingFeedback' =
                    pendingFeedback \cup {Len(feedbackCalls) + 1}
               /\ UNCHANGED pushed
          ELSE /\ pushed' = Append(pushed, DefaultPath)
               /\ UNCHANGED <<feedbackCalls, pendingFeedback>>
     ELSE UNCHANGED <<pushed, feedbackCalls, pendingFeedback>>

\* ------------------------------------------------------------ the actions

\* The part of the state space that is explored.
LogsWithin(m, f, p, st, sa) ==
  /\ Len(messages) <= m
  /\ Len(feedbackCalls) <= f
  /\ Len(pushed) <= p
  /\ stopCalls <= st
  /\ startCalls <= sa

Bounded ==
  /\ now <= MaxTime
  /\ LogsWithin(MaxMessages, MaxFeedbackCalls, MaxPushes, MaxStops, MaxStarts)
  /\ now > 0 =>
       LogsWithin(LongRunLog, LongRunLog, LongRunLog, LongRunLog, LongRunLog)

\* The transport emits an event to the handlers registered for it, once
\* vapi.start has been invoked.
delivers(event) == listeners[event] > 0 /\ startCalls > 0

AgentInit ==
  /\ now = 0
  /\ mounted = TRUE
  /\ listeners = subscribe([event \in Events |-> 0])
  /\ type \in Types
  /\ interviewId \in InterviewIds
  /\ callStatus = INACTIVE
  /\ messages = <<>>
  /\ isSpeaking = FALSE
  /\ lastMessage = ""
  /\ lastActivityTimestamp = 0
  /\ inactivityTimer = NoTimer
  /\ startCalls = 0
  /\ stopCalls = 0
  /\ pushed = <<>>
  /\ feedbackCalls = <<>>
  /\ pendingFeedback = {}
  /\ lastOp = [op |-> "mount"]
  /\ finals = <<>>

\* The component is mounted; no server action has run.
Init == AgentInit /\ AuthInit

\* The server starts with any provider records and is presented no cookie or
\* a stale one; the component is not interacted with.
AuthStart ==
  /\ AgentInit
  /\ type = "interview"
  /\ users = [uid \in Uids |-> NoDoc]
  /\ authUsers \in [Uids -> AuthRecords]
  /\ cookie \in {NoCookie, StaleCookie}
  /\ signUps = [c \in SignUpCalls |-> Idle]
  /\ writes = [uid \in Uids |-> 0]
  /\ lastAuth = [op |-> "none"]

\* The call button, rendered whenever the status is not ACTIVE.
handleCall ==
  /\ mounted
  /\ callStatus # ACTIVE
  /\ Render(CONNECTING, messages, lastActivityTimestamp)
  /\ startCalls' = startCalls + 1
  /\ lastOp' = [op |-> "handleCall"]
  /\ UNCHANGED <<now, mounted, props, listeners, isSpeaking, stopCalls, finals>>
  /\ UNCHANGED authVars
  /\ Bounded'

\* The End button, rendered only while the status is ACTIVE.
handleDisconnect ==
  /\ mounted
  /\ callStatus = ACTIVE
  /\ Render(FINISHED, messages, lastActivityTimestamp)
  /\ stopCalls' = stopCalls + 1
  /\ lastOp' = [op |-> "handleDisconnect"]
  /\ UNCHANGED <<now, mounted, props, listeners, isSpeaking, startCalls, finals>>
  /\ UNCHANGED authVars
  /\ Bounded'

\* The interval callback, run when the armed interval is due.
inactivityTimer_fire ==
  /\ mounted
  /\ inactivityTimer # NoTimer
  /\ inactivityTimer = now
  /\ IF timedOut(now, lastActivityTimestamp)
     THEN /\ Render(FINISHED, messages, lastActivityTimestamp)
          /\ stopCalls' = stopCalls + 1
     ELSE /\ inactivityTimer' = now + POLL_INTERVAL
          /\ UNCHANGED <<callStatus, messages, lastActivityTimestamp,
                         lastMessage, pushed, feedbackCalls, pendingFeedback,
                         stopCalls>>
  /\ lastOp' = [op |-> "inactivityTimer"]
  /\ UNCHANGED <<now, mounted, props, listeners, isSpeaking, startCalls, finals>>
  /\ UNCHANGED authVars
  /\ Bounded'

onCallStart ==
  /\ delivers("call-start")
  /\ Render(ACTIVE, messages, now)
  /\ lastOp' = [op |-> "onCallStart"]
  /\ UNCHANGED <<now, mounted, props, listeners, isSpeaking, startCalls,
                 stopCalls, finals>>
  /\ UNCHANGED authVars
  /\ Bounded'

onCallEnd ==
  /\ delivers("call-end")
  /\ Render(FINISHED, messages, lastActivityTimestamp)
  /\ lastOp' = [op |-> "onCallEnd"]
  /\ UNCHANGED <<now, mounted, props, listeners, isSpeaking, startCalls,
                 stopCalls, finals>>
  /\ UNCHANGED authVars
  /\ Bounded'

onMessage(message) ==
  /\ delivers("message")
  /\ Render(callStatus, onMessageMessages(messages, message),
            onMessageTimestamp(lastActivityTimestamp, message, now))
  /\ finals' = IF message.type = "transcript" /\ message.transcriptType = "final"
               THEN finals \o <<[role |-> message.role,
                                 content |-> message.transcript]>>
               ELSE finals
  /\ lastOp' = [op |-> "onMessage", message |-> message]
  /\ UNCHANGED <<now, mounted, props, listeners, isSpeaking, startCalls,
                 stopCalls>>
  /\ UNCHANGED authVars
  /\ Bounded'

onSpeechStart ==
  /\ delivers("speech-start")
  /\ Render(callStatus, messages, now)
  /\ isSpeaking' = TRUE
  /\ lastOp' = [op |-> "onSpeechStart"]
  /\ UNCHANGED <<now, mounted, props, listeners, startCalls, stopCalls, finals>>
  /\ UNCHANGED authVars
  /\ Bounded'

onSpeechEnd ==
  /\ delivers("speech-end")
  /\ isSpeaking' = FALSE
  /\ lastOp' = [op |-> "onSpeechEnd"]
  /\ UNCHANGED <<now, mounted, props, listeners, callStatus, messages,
                 lastMessage, lastActivityTimestamp, inactivityTimer,
                 startCalls, stopCalls, pushed, feedbackCalls,
                 pendingFeedback, finals>>
  /\ UNCHANGED authVars

onError(error) ==
  /\ delivers("error")
  /\ IF isMeetingEnded(error)
     THEN /\ Render(FINISHED, messages, lastActivityTimestamp)
          /\ stopCalls' = stopCalls + 1
     ELSE UNCHANGED <<callStatus, messages, lastActivityTimestamp,
                      inactivityTimer, lastMessage, pushed, feedbackCalls,
                      pendingFeedback, stopCalls>>
  /\ lastOp' = [op |-> "onError", error |-> error]
  /\ UNCHANGED <<now, mounted, props, listeners, isSpeaking, startCalls, finals>>
  /\ UNCHANGED authVars
  /\ Bounded'

\* createFeedback resolved with result: the rest of handleGenerateFeedback.
feedbackResolved(i, result) ==
  /\ i \in pendingFeedback
  /\ pendingFeedback' = pendingFeedback \ {i}
  /\ pushed' = Append(pushed, feedbackDestination(result, interviewId))
  /\ lastOp' = [op |-> "feedbackResolved",
                result |-> result]
  /\ UNCHANGED <<now, mounted, props, listeners, callStatus, messages,
                 isSpeaking, lastMessage, lastActivityTimestamp,
                 inactivityTimer, startCalls, stopCalls, feedbackCalls, finals>>
  /\ UNCHANGED authVars
  /\ Bounded'

\* createFeedback rejected: the await throws, nothing catches it.
feedbackRejected(i) ==
  /\ i \in pendingFeedback
  /\ pendingFeedback' = pendingFeedback \ {i}
  /\ lastOp' = [op |-> "feedbackRejected"]
  /\ UNCHANGED <<now, mounted, props, listeners, callStatus, messages,
                 isSpeaking, lastMessage, lastActivityTimestamp,
                 inactivityTimer, startCalls, stopCalls, pushed,
                 feedbackCalls, finals>>
  /\ UNCHANGED authVars

\* The component is discarded: both effects' cleanups run.
unmount ==
  /\ mounted
  /\ mounted' = FALSE
  /\ listeners' = unsubscribe(listeners)
  /\ inactivityTimer' = NoTimer
  /\ lastOp' = [op |-> "unmount"]
  /\ UNCHANGED <<now, props, callStatus, messages, isSpeaking,
                 lastMessage, lastActivityTimestamp, startCalls, stopCalls,
                 pushed, feedbackCalls, pendingFeedback, finals>>
  /\ UNCHANGED authVars

\* Time passes, up to the moment the armed interval is due.  Only the time
\* that passes while the status is ACTIVE is observable: every entry to
\* ACTIVE (onCallStart) overwrites lastActivityTimestamp with the clock, and
\* no interval exists outside ACTIVE.
Tick ==
  /\ mounted
  /\ callStatus = ACTIVE
  /\ inactivityTimer = NoTimer \/ now < inactivityTimer
  /\ now' = IF inactivityTimer = NoTimer THEN now + TickStep
            ELSE Min(now + TickStep, inactivityTimer)
  /\ lastOp' = [op |-> "Tick"]
  /\ UNCHANGED <<mounted, props, listeners, callStatus, messages, isSpeaking,
                 lastMessage, lastActivityTimestamp, inactivityTimer,
                 startCalls, stopCalls, pushed, feedbackCalls,
                 pendingFeedback, finals>>
  /\ UNCHANGED authVars
  /\ Bounded'

Next ==
  \/ handleCall
  \/ handleDisconnect
  \/ inactivityTimer_fire
  \/ onCallStart
  \/ onCallEnd
  \/ \E message \in Messages : onMessage(message)
  \/ onSpeechStart
  \/ onSpeechEnd
  \/ \E error \in ErrorEvents : onError(error)
  \/ \E i \in pendingFeedback, result \in FeedbackResults :
       feedbackResolved(i, result)
  \/ \E i \in pendingFeedback : feedbackRejected(i)
  \/ unmount
  \/ Tick

Spec == Init /\ [][Next]_vars

TypeOK ==
  /\ Bounded
  /\ callStatus \in CallStatus
  /\ mounted \in BOOLEAN
  /\ listeners \in [Events -> 0..1]
  /\ isSpeaking \in BOOLEAN
  /\ now \in 0..MaxTime
  /\ lastActivityTimestamp \in 0..now
  /\ inactivityTimer = NoTimer \/ inactivityTimer >= now

\* ------------------------------------------------- the auth server actions

\* auth.getUserByEmail(email): the record of the uid registered with the
\* email, "none" when there is none.
getUserByEmail(au, email) ==
  LET found == {uid \in Uids : EmailOf[uid] = email /\ au[uid] # "none"}
  IN  IF found = {} THEN "none" ELSE au[CHOOSE uid \in found : TRUE]

\* auth.createSessionCookie(idToken, ...) throws.
createSessionCookieThrows(idToken, fault) ==
  fault = "createSessionCookie" \/ ~idToken.valid

\* setSessionCookie(idToken): the cookie store after a call that did not
\* throw.
setSessionCookie(idToken) ==
  [present |-> TRUE, uid |-> idToken.uid, valid |-> TRUE]

\* Variant of signInReturns without the emailVerified test.
signInReturns_unverifiedAllowed(email, idToken, fault, au, c) ==
  IF fault = "getUserByEmail" THEN [success |-> FALSE, cookie |-> c]
  ELSE IF getUserByEmail(au, email) = "none"
  THEN [success |-> FALSE, cookie |-> c]
  ELSE IF createSessionCookieThrows(idToken, fault)
  THEN [success |-> FALSE, cookie |-> c]
  ELSE [success |-> TRUE, cookie |-> setSessionCookie(idToken)]

\* signIn: what it returns and the cookie store it leaves, c being the cookie
\* store before the call.
signInReturns(email, idToken, fault, au, c) ==
  IF fault = "getUserByEmail" THEN [success |-> FALSE, cookie |-> c]
  ELSE IF getUserByEmail(au, email) = "none"
  THEN [success |-> FALSE, cookie |-> c]
  ELSE IF getUserByEmail(au, email) # "verified"
  THEN [success |-> FALSE, cookie |-> c]
  ELSE IF createSessionCookieThrows(idToken, fault)
  THEN [success |-> FALSE, cookie |-> c]
  ELSE [success |-> TRUE, cookie |-> setSessionCookie(idToken)]

\* The user object getCurrentUser builds: { ...userRecord.data(), id }.
User(uid, doc) ==
  [isNull |-> FALSE, id |-> uid, name |-> doc.name, email |-> doc.email]

\* Variant of getCurrentUserReturns that deletes the cookie on every null
\* outcome of a presented cookie.
getCurrentUserReturns_alwaysDeletes(c, db, au, fault) ==
  IF ~c.present THEN [user |-> NoUser, cookie |-> c]
  ELSE IF fault = "verifySessionCookie" \/ ~c.valid
  THEN [user |-> NoUser, cookie |-> NoCookie]
  ELSE IF fault = "get" THEN [user |-> NoUser, cookie |-> NoCookie]
  ELSE IF ~db[c.uid].exists THEN [user |-> NoUser, cookie |-> NoCookie]
  ELSE IF fault = "getUser" \/ au[c.uid] = "none"
  THEN [user |-> NoUser, cookie |-> NoCookie]
  ELSE IF au[c.uid] # "verified" THEN [user |-> NoUser, cookie |-> NoCookie]
  ELSE [user |-> User(c.uid, db[c.uid]), cookie |-> c]

\* getCurrentUser: what it returns and the cookie store it leaves.
\* verifySessionCookie throws for a cookie the provider does not accept and
\* getUser throws for a uid without record; the catch returns null.
getCurrentUserReturns(c, db, au, fault) ==
  IF ~c.present THEN [user |-> NoUser, cookie |-> c]
  ELSE IF fault = "verifySessionCookie" \/ ~c.valid
  THEN [user |-> NoUser, cookie |-> c]
  ELSE IF fault = "get" THEN [user |-> NoUser, cookie |-> c]
  ELSE IF ~db[c.uid].exists THEN [user |-> NoUser, cookie |-> c]
  ELSE IF fault = "getUser" \/ au[c.uid] = "none"
  THEN [user |-> NoUser, cookie |-> c]
  ELSE IF au[c.uid] # "verified" THEN [user |-> NoUser, cookie |-> NoCookie]
  ELSE [user |-> User(c.uid, db[c.uid]), cookie |-> c]

\* isAuthenticated: !!user
notNot(user) == ~user.isNull

\* signUp up to the answer of doc(uid).get(): the call returns at once when
\* the get throws or the document exists, and goes on to the set otherwise.
signUp_get(c, uid, name, fault) ==
  /\ signUps[c] = Idle
  /\ signUps' =
       [signUps EXCEPT ![c] =
          IF fault = "get" \/ users[uid].exists
          THEN [pc |-> "done", uid |-> uid, name |-> name,
                existed |-> users[uid].exists, wrote |-> FALSE,
                success |-> FALSE]
          ELSE [pc |-> "checked", uid |-> uid, name |-> name,
                existed |-> FALSE, wrote |-> FALSE, success |-> FALSE]]
  /\ lastAuth' = [op |-> "signUp"]
  /\ UNCHANGED <<users, authUsers, cookie, writes>>
  /\ UNCHANGED agentVars

\* signUp from doc(uid).set(...) to its return.
signUp_set(c, fault) ==
  /\ signUps[c].pc = "checked"
  /\ IF fault = "set"
     THEN /\ signUps' = [signUps EXCEPT ![c].pc = "done"]
          /\ UNCHANGED <<users, writes>>
     ELSE /\ users' =
               [users EXCEPT ![signUps[c].uid] =
                  [exists |-> TRUE, name |-> signUps[c].name,
                   email |-> EmailOf[signUps[c].uid]]]
          /\ writes' = [writes EXCEPT ![signUps[c].uid] = @ + 1]
          /\ signUps' = [signUps EXCEPT ![c].pc = "done", ![c].wrote = TRUE,
                                        ![c].success = TRUE]
  /\ lastAuth' = [op |-> "signUp"]
  /\ UNCHANGED <<authUsers, cookie>>
  /\ UNCHANGED agentVars

signIn(email, idToken, fault) ==
  /\ cookie' = signInReturns(email, idToken, fault, authUsers, cookie).cookie
  /\ lastAuth' =
       [op |-> "signIn", email |-> email, idToken |-> idToken,
        fault |-> fault,
        success |->
          signInReturns(email, idToken, fault, authUsers, cookie).success]
  /\ UNCHANGED <<users, authUsers, signUps, writes>>
  /\ UNCHANGED agentVars

signOut ==
  /\ cookie.present
  /\ cookie' = NoCookie
  /\ lastAuth' = [op |-> "signOut"]
  /\ UNCHANGED <<users, authUsers, signUps, writes>>
  /\ UNCHANGED agentVars

getCurrentUser(fault) ==
  /\ cookie' = getCurrentUserReturns(cookie, users, authUsers, fault).cookie
  /\ lastAuth' =
       [op |-> "getCurrentUser", fault |-> fault, presented |-> cookie.present,
        user |-> getCurrentUserReturns(cookie, users, authUsers, fault).user]
  /\ UNCHANGED <<users, authUsers, signUps, writes>>
  /\ UNCHANGED agentVars

isAuthenticated(fault) ==
  /\ cookie' = getCurrentUserReturns(cookie, users, authUsers, fault).cookie
  /\ lastAuth' =
       [op |-> "isAuthenticated", fault |-> fault,
        presented |-> cookie.present,
        result |->
          notNot(getCurrentUserReturns(cookie, users, authUsers, fault).user)]
  /\ UNCHANGED <<users, authUsers, signUps, writes>>
  /\ UNCHANGED agentVars

AuthNext ==
  \/ \E c \in SignUpCalls, uid \in Uids, name \in Names,
        fault \in SignUpGetFaults : signUp_get(c, uid, name, fault)
  \/ \E c \in SignUpCalls, fault \in SignUpSetFaults : signUp_set(c, fault)
  \/ \E email \in Emails, idToken \in IdTokens, fault \in SignInFaults :
       signIn(email, idToken, fault)
  \/ signOut
  \/ \E fault \in CurrentUserFaults : getCurrentUser(fault)
  \/ \E fault \in CurrentUserFaults : isAuthenticated(fault)

AuthSpec == AuthStart /\ [][AuthNext]_vars

AuthTypeOK ==
  /\ users \in [Uids -> Docs \cup {NoDoc}]
  /\ authUsers \in [Uids -> AuthRecords]
  /\ cookie \in SessionCookies \cup {NoCookie}
  /\ writes \in [Uids -> 0..MaxSignUps]
  /\ \A c \in SignUpCalls : signUps[c].pc \in {"idle", "checked", "done"}

\* ------------------------------------------------------------- properties

Last(seq) == seq[Len(seq)]

\* C1 (as claimed): once the call status is FINISHED, no event changes it to
\* INACTIVE, CONNECTING or ACTIVE.
C1_FinishedStaysFinished ==
  [][callStatus = FINISHED => callStatus' = FINISHED]_vars

\* C2 (as claimed): once the status is FINISHED the terminal dispatch has run
\* and no later event runs it again: no event delivered while the status is
\* and stays FINISHED submits to createFeedback again or, in generate mode,
\* navigates again.
C2_DispatchRunsOnce ==
  [][(callStatus = FINISHED /\ callStatus' = FINISHED)
       => /\ feedbackCalls' = feedbackCalls
          /\ type = "generate" => pushed' = pushed]_vars

\* A createFeedback call has just resolved with success = true and a
\* feedbackId.
ResolvedWithId ==
  /\ lastOp.op = "feedbackResolved"
  /\ lastOp.result.success
  /\ lastOp.result.feedbackId \in FeedbackIds

\* C3 (as claimed): when createFeedback returns success = true with a
\* feedbackId F, the location navigated to contains F.
C3_NavigatesToReturnedId ==
  ResolvedWithId =>
    /\ pushed # <<>>
    /\ \E k \in DOMAIN Last(pushed) : Last(pushed)[k] = lastOp.result.feedbackId

\* C3 (amended): when createFeedback returns success = true with a feedbackId
\* F, the location navigated to is /interview/<interviewId>/feedback, keyed by
\* the session's interviewId whatever F is.
C3_NavigatesToInterviewFeedback ==
  ResolvedWithId =>
    /\ pushed # <<>>
    /\ Last(pushed) = <<"interview", interviewId, "feedback">>

C3_Witness ==
  /\ ResolvedWithId
  /\ type = "interview"
  /\ callStatus = FINISHED
  /\ lastOp.result.feedbackId = "fb2"
  /\ pushed = <<FeedbackPath(interviewId)>>

\* C4: while the status is ACTIVE an interval is armed, the clock has not
\* passed its due time, and it is due no later than one poll interval after
\* the inactivity threshold counted from the last activity event: a call
\* without activity is FINISHED at lastActivityTimestamp + threshold + one
\* poll interval at the latest.
C4_WatchdogDeadline ==
  (mounted /\ callStatus = ACTIVE) =>
    /\ inactivityTimer # NoTimer
    /\ now <= inactivityTimer
    /\ inactivityTimer <=
         lastActivityTimestamp + INACTIVITY_TIMEOUT + POLL_INTERVAL
    /\ now - lastActivityTimestamp <= INACTIVITY_TIMEOUT + POLL_INTERVAL

C4_Witness ==
  /\ callStatus = FINISHED
  /\ lastOp.op = "inactivityTimer"
  /\ now - lastActivityTimestamp = INACTIVITY_TIMEOUT + POLL_INTERVAL
  /\ stopCalls = 1

\* The error's message, string form or serialized form contains the marker.
containsMarker(error) ==
  \E form \in {error.message, error.str, error.json} :
    \E i \in 1..Len(form) :
      /\ i + 2 <= Len(form)
      /\ form[i] = "Meeting" /\ form[i + 1] = "has" /\ form[i + 2] = "ended"

C6_GenerateNavigatesHome ==
  type = "generate" =>
    /\ feedbackCalls = <<>>
    /\ pendingFeedback = {}
    /\ \A k \in DOMAIN pushed : pushed[k] = DefaultPath
    /\ callStatus = FINISHED => pushed # <<>>

C6_Witness ==
  /\ type = "generate"
  /\ callStatus = FINISHED
  /\ pushed = <<DefaultPath>>
  /\ feedbackCalls = <<>>

\* C7: when createFeedback returns success = false, or success = true without
\* a feedbackId, the location navigated to is the default location and not a
\* feedback location.
C7_FailureNavigatesHome ==
  (/\ lastOp.op = "feedbackResolved"
   /\ (~lastOp.result.success \/ lastOp.result.feedbackId = NoId)) =>
    /\ pushed # <<>>
    /\ Last(pushed) = DefaultPath
    /\ Last(pushed) # FeedbackPath(interviewId)

C7_Witness ==
  /\ lastOp.op = "feedbackResolved"
  /\ ~lastOp.result.success
  /\ lastOp.result.feedbackId = "fb1"
  /\ callStatus = FINISHED
  /\ pushed = <<DefaultPath>>

\* C8 (as claimed): in interview mode, once the status is FINISHED and no
\* createFeedback call is outstanding any more, a navigation has happened,
\* whatever the outcome of each call was.
C8_EveryOutcomeNavigates ==
  (type = "interview" /\ callStatus = FINISHED /\ pendingFeedback = {}) =>
    pushed # <<>>

\* C9: transcriptLog holds exactly the final transcripts delivered, in
\* arrival order.
C9_TranscriptLogIsFinals == messages = finals

C9_Witness ==
  /\ lastOp.op = "onMessage"
  /\ lastOp.message.transcriptType = "partial"
  /\ Len(messages) = 2
  /\ messages[1].role = "user"
  /\ messages[2].role = "assistant"

\* C10: no interval is armed while the status is INACTIVE, CONNECTING or
\* FINISHED.
C10_TimerOnlyWhileActive ==
  callStatus \in {INACTIVE, CONNECTING, FINISHED} => inactivityTimer = NoTimer

C10_Witness ==
  /\ callStatus = FINISHED
  /\ lastOp.op = "handleDisconnect"
  /\ now > lastActivityTimestamp
  /\ inactivityTimer = NoTimer

\* The event recorded in op is one of the three activity events: call-start,
\* a final transcript, speech-start.
isActivityEvent(op) ==
  \/ op.op = "onCallStart"
  \/ op.op = "onSpeechStart"
  \/ /\ op.op = "onMessage"
     /\ op.message.type = "transcript"
     /\ op.message.transcriptType = "final"

\* C11: the interval callback stops the call only when more than the
\* threshold has elapsed since lastActivityTimestamp, and
\* lastActivityTimestamp is set to the clock by call-start, by every final
\* transcript and by every speech-start and changed by nothing else; so the
\* callback never ends a call whose last activity event is at most 30 s old.
C11_WatchdogOnlyAfterSilence ==
  [][/\ (lastOp'.op = "inactivityTimer" /\ stopCalls' # stopCalls)
          => /\ callStatus' = FINISHED
             /\ now - lastActivityTimestamp > INACTIVITY_TIMEOUT
     /\ isActivityEvent(lastOp') => lastActivityTimestamp' = now
     /\ ~isActivityEvent(lastOp')
          => lastActivityTimestamp' = lastActivityTimestamp]_vars

C11_Witness ==
  /\ lastOp.op = "inactivityTimer"
  /\ callStatus = FINISHED
  /\ lastActivityTimestamp = POLL_INTERVAL
  /\ now = lastActivityTimestamp + INACTIVITY_TIMEOUT + POLL_INTERVAL
  /\ isSpeaking

\* C12 (as claimed): every change of the status is one of the forward steps:
\* INACTIVE to CONNECTING by the user's call request, CONNECTING to ACTIVE by
\* a call-start event, ACTIVE or CONNECTING to FINISHED.
C12_ForwardPathOnly ==
  [][callStatus' # callStatus =>
       \/ /\ callStatus = INACTIVE
          /\ callStatus' = CONNECTING
          /\ lastOp'.op = "handleCall"
       \/ /\ callStatus = CONNECTING
          /\ callStatus' = ACTIVE
          /\ lastOp'.op = "onCallStart"
       \/ /\ callStatus \in {ACTIVE, CONNECTING}
          /\ callStatus' = FINISHED]_vars

\* C13 (as claimed): vapi.start is invoked only by a call request made while
\* the status is INACTIVE, and so at most once: a click while the status is
\* CONNECTING or FINISHED does not invoke it.
C13_StartOnlyFromInactive ==
  [][startCalls' # startCalls =>
       /\ lastOp'.op = "handleCall"
       /\ callStatus = INACTIVE
       /\ startCalls = 0]_vars

\* C14 (as claimed): right after the call request and right after the
\* call-start event of a session's first call, before anything was
\* dispatched, that is with the status CONNECTING and with the status ACTIVE,
\* the user can request a disconnect, which sets the status to FINISHED and
\* invokes vapi.stop.
C14_DisconnectWhileConnecting ==
  (/\ mounted
   /\ callStatus \in {ACTIVE, CONNECTING}
   /\ lastOp.op \in {"handleCall", "onCallStart"}
   /\ startCalls = 1
   /\ stopCalls = 0
   /\ feedbackCalls = <<>>
   /\ pushed = <<>>) =>
    ENABLED (/\ handleDisconnect
             /\ callStatus' = FINISHED
             /\ stopCalls' = stopCalls + 1)

\* C15: an error event whose message, string form and serialized form do not
\* contain "Meeting has ended" changes nothing: the status, the transcript
\* log, lastActivityTimestamp, isSpeaking, lastMessage and the interval are
\* as before, vapi.stop and vapi.start are not invoked, createFeedback is not
\* invoked and nothing is navigated to.
C15_OtherErrorChangesNothing ==
  [][(lastOp'.op = "onError" /\ ~containsMarker(lastOp'.error))
       => UNCHANGED <<callStatus, messages, lastActivityTimestamp, isSpeaking,
                      lastMessage, inactivityTimer, stopCalls, startCalls,
                      feedbackCalls, pendingFeedback, pushed>>]_vars

C15_Witness ==
  /\ lastOp.op = "onError"
  /\ ~containsMarker(lastOp.error)
  /\ lastOp.error.message = <<"Meeting", "ended">>
  /\ callStatus = ACTIVE
  /\ isSpeaking
  /\ Len(messages) = 1
  /\ stopCalls = 0
  /\ pushed = <<>>

\* The handler run for each event.
HandlerOps ==
  {"onCallStart", "onCallEnd", "onMessage", "onSpeechStart", "onSpeechEnd",
   "onError"}

\* C16: while the component is mounted exactly one handler is registered for
\* each of the events it listens to, after it is discarded none is
\* registered for any of them, and no handler runs after the discard.
C16_SubscriptionsAllOrNothing ==
  /\ \A event \in Events : listeners[event] = IF mounted THEN 1 ELSE 0
  /\ lastOp.op \in HandlerOps => mounted

C16_Witness ==
  /\ ~mounted
  /\ lastOp.op = "unmount"
  /\ callStatus = ACTIVE
  /\ startCalls = 1
  /\ now > 0
  /\ \A event \in Events : listeners[event] = 0

IsPrefix(s, t) == Len(s) <= Len(t) /\ s = SubSeq(t, 1, Len(s))

\* C17: in interview mode every transcript handed to createFeedback is the
\* sequence of final transcripts delivered up to that submission, in arrival
\* order, and while the status is FINISHED the latest submission holds every
\* final transcript delivered so far.
C17_SubmitsFullTranscript ==
  type = "interview" =>
    /\ \A k \in DOMAIN feedbackCalls : IsPrefix(feedbackCalls[k], finals)
    /\ callStatus = FINISHED =>
         (feedbackCalls # <<>> /\ Last(feedbackCalls) = finals)

C17_Witness ==
  /\ type = "interview"
  /\ callStatus = FINISHED
  /\ lastOp.op = "onCallEnd"
  /\ Len(finals) = 2
  /\ finals[1].role = "assistant"
  /\ finals[2].role = "user"
  /\ feedbackCalls = <<finals>>

\* The signUp calls for uid that have returned.
Returned(uid) ==
  {c \in SignUpCalls : signUps[c].pc = "done" /\ signUps[c].uid = uid}

\* C18 (as claimed): for every uid, whatever the interleaving of the signUp
\* calls, the user document is written at most once, at most one call
\* returns success = true, and a call that found the document existing
\* returned success = false without writing it.
C18_SignUpWritesOnce ==
  \A uid \in Uids :
    /\ writes[uid] <= 1
    /\ Cardinality({c \in Returned(uid) : signUps[c].success}) <= 1
    /\ \A c \in Returned(uid) :
         signUps[c].existed => (~signUps[c].success /\ ~signUps[c].wrote)

\* The provider holds a record for the email whose emailVerified is true.
VerifiedRecord(email) ==
  \E uid \in Uids : EmailOf[uid] = email /\ authUsers[uid] = "verified"

\* C19: signIn changes the session cookie only when the provider returns a
\* record for the email and the record's email is verified; when moreover no
\* call throws it returns success = true with the cookie created for the ID
\* token, and in every other case (no record, unverified email, an exception
\* from the provider or from the creation of the session cookie) it returns
\* success = false and leaves the cookie as it was.
C19_SignInSetsCookieOnlyVerified ==
  [][lastAuth'.op = "signIn" =>
       /\ cookie' # cookie => VerifiedRecord(lastAuth'.email)
       /\ IF /\ VerifiedRecord(lastAuth'.email)
             /\ lastAuth'.fault = NoFault
             /\ lastAuth'.idToken.valid
          THEN /\ lastAuth'.success
               /\ cookie'.present
               /\ cookie'.valid
               /\ cookie'.uid = lastAuth'.idToken.uid
          ELSE /\ ~lastAuth'.success
               /\ cookie' = cookie]_vars

C19_Witness ==
  /\ lastAuth.op = "signIn"
  /\ VerifiedRecord(lastAuth.email)
  /\ lastAuth.fault = "createSessionCookie"
  /\ lastAuth.idToken.valid
  /\ ~lastAuth.success
  /\ cookie = StaleCookie

\* The presented cookie verifies and the document of its uid is read, no
\* call throwing up to there.
DocumentFound(fault) ==
  /\ cookie.present
  /\ cookie.valid
  /\ fault \notin {"verifySessionCookie", "get"}
  /\ users[cookie.uid].exists

\* C20: getCurrentUser returns a user, the one of the cookie's uid, exactly
\* when a cookie is presented, it verifies, the user document exists, the
\* provider's record has a verified email and no call throws, and null
\* otherwise; it deletes the cookie when it got as far as the record and the
\* record's email is not verified, and leaves the cookie as it was in every
\* other case; isAuthenticated returns true exactly when getCurrentUser
\* returns a user.
C20_CurrentUserOnlyVerified ==
  [][lastAuth'.op \in {"getCurrentUser", "isAuthenticated"} =>
       LET found == DocumentFound(lastAuth'.fault)
           record == IF found /\ lastAuth'.fault # "getUser"
                     THEN authUsers[cookie.uid] ELSE "none"
       IN  /\ lastAuth'.op = "getCurrentUser" =>
                /\ lastAuth'.user.isNull <=> record # "verified"
                /\ ~lastAuth'.user.isNull => lastAuth'.user.id = cookie.uid
           /\ lastAuth'.op = "isAuthenticated" =>
                (lastAuth'.result <=> record = "verified")
           /\ cookie' = IF record = "unverified" THEN NoCookie ELSE cookie
    ]_vars

C20_Witness ==
  /\ lastAuth.op = "getCurrentUser"
  /\ lastAuth.fault = NoFault
  /\ lastAuth.presented
  /\ lastAuth.user.isNull
  /\ ~cookie.present
  /\ users["u2"].exists
  /\ authUsers["u2"] = "unverified"

====
